---- MODULE Spec2Model ----
(***************************************************************************)
(* PoreMesh: block decomposition (src/src/preprocessor.py) and the mesh    *)
(* pipeline that runs one extraction task per block (src/src/pipeline.py). *)
(*                                                                         *)
(* Arrays are records [shape |-> <<d0,d1,d2>>, v |-> function on the       *)
(* 0-based index triples of that shape]; axis k of numpy is component k+1  *)
(* of a tuple.                                                             *)
(***************************************************************************)
EXTENDS Integers, Sequences, FiniteSets, TLC

VARIABLES
    config,        \* Preprocessor.config: the PreprocessingConfig
    data,          \* the volume the input file holds (a 3-D uint8 array)
    call,          \* preprocessor API: the last call, [op, a1, a2, a3]
    ret,           \* preprocessor API: the array the last call returned
    retBlocks,     \* preprocessor API: the blocks the last blockify returned
    num_processes, \* MeshPipeline.num_processes
    oracle,        \* the extraction capability: block index -> what it does
    pc,            \* where the pipeline is: "idle", "pool" or "loop"
    modes,         \* use_parallel of every call of process_single_volume so far
    results,       \* MeshPipeline.results
    blocks,        \* local blocks of the running process_single_volume_*
    taken,         \* pool: how many tasks of args_list the workers have taken
    running,       \* pool: the positions in args_list being executed
    slots,         \* pool: position in args_list -> what the task returned
    overtaken,     \* pool: a task completed before one earlier in args_list did
    loop_i,        \* sequential: the loop variable i
    output_meshes, \* sequential: local output_meshes
    mesh_quality,  \* sequential: local mesh_quality
    files,         \* the file system: mesh path -> the block index whose mesh it holds
    handed,        \* this call's extraction calls: {[block_idx, array]}
    written,       \* the mesh paths written during this call
    main_args,     \* run_pipeline.main: args, the parsed command line
    tiff_files,    \* run_pipeline.main: the input files it processes, in order
    rpc,           \* run_pipeline.main: where it is
    file_i,        \* run_pipeline.main: how many of tiff_files the loop has done
    saved,         \* every pipeline_report.json written so far, oldest first
    effects,       \* per processed input: what process_single_volume did
    ctor_num_processes, \* the num_processes argument MeshPipeline was built with
    tab            \* ui: the last process_tiff_file call and how it ended

preVars == <<call, ret, retBlocks>>
pipeVars == <<num_processes, oracle, pc, modes, results, blocks, taken, running,
              slots, overtaken, loop_i, output_meshes, mesh_quality, files, handed, written>>
runVars == <<main_args, tiff_files, rpc, file_i, saved, effects>>
uiVars == <<ctor_num_processes, tab>>
vars == <<config, data, preVars, pipeVars, runVars, uiVars>>

----------------------------------------------------------------------------
(* Bounds of the model.                                                    *)

MaxDim == 3          \* volume extents are 1..MaxDim
MaxBlockSize == 2    \* block sizes are 1..MaxBlockSize
MaxCap == 2          \* cap sizes are 1..MaxCap
MaxPad == 1          \* padding sizes are 0..MaxPad

----------------------------------------------------------------------------
(* Python values.                                                          *)

\* An omitted integer argument (Python's None default).
None == -1
\* An omitted axis argument.
NoneAxis == "None"

\* `a or b` on an integer argument: None and 0 are both falsy.
PyOr(a, b) == IF a = None \/ a = 0 THEN b ELSE a

\* `axis or b` on a string argument.
PyOrAxis(a, b) == IF a = NoneAxis THEN b ELSE a

Min(a, b) == IF a < b THEN a ELSE b
Max(a, b) == IF a > b THEN a ELSE b

\* The first index selected by slice(start, ...) on an axis of length n.
SliceStart(start, n) == IF start < 0 THEN Max(n + start, 0) ELSE Min(start, n)

\* The end index of slice(..., stop) on an axis of length n, stop an integer.
SliceStop(stop, n) == IF stop < 0 THEN Max(n + stop, 0) ELSE Min(stop, n)

\* Python's unary minus: -0 is 0, which slice() reads as "from the start".
Neg(x) == 0 - x

----------------------------------------------------------------------------
(* Arrays.                                                                 *)

Idx(shape) == (0..(shape[1]-1)) \X (0..(shape[2]-1)) \X (0..(shape[3]-1))

\* np.zeros(shape)
Zeros(shape) == [shape |-> shape, v |-> [p \in Idx(shape) |-> 0]]

\* data[lo[1]:hi[1], lo[2]:hi[2], lo[3]:hi[3]] with numpy's clipping of
\* slice bounds to the array
SubArray(arr, lo, hi) ==
    LET a == [k \in 1..3 |-> SliceStart(lo[k], arr.shape[k])]
        b == [k \in 1..3 |-> SliceStop(hi[k], arr.shape[k])]
        sh == [k \in 1..3 |-> Max(b[k] - a[k], 0)]
    IN [shape |-> sh,
        v |-> [p \in Idx(sh) |-> arr.v[<<p[1] + a[1], p[2] + a[2], p[3] + a[3]>>]]]

----------------------------------------------------------------------------
(* class Preprocessor                                                      *)

\* self.axes_map
axes_map == [z |-> 0, y |-> 1, x |-> 2]

AxisIndex(axis) ==
    CASE axis = "z" -> axes_map.z
      [] axis = "y" -> axes_map.y
      [] axis = "x" -> axes_map.x

\* The mutant writes the end cap over slice(-cap_size - 1, None).
add_caps_m_end(self, d, cap_size, axis, value) ==
    LET cs == PyOr(cap_size, self.cap_size)
        a == PyOrAxis(axis, self.cap_axis)
        val == PyOr(value, self.cap_value)
        ax == AxisIndex(a) + 1
        n == d.shape[ax]
        shape == [d.shape EXCEPT ![ax] = @ + 2 * cs]
        endLo == SliceStart(Neg(cs) - 1, shape[ax])
    IN [shape |-> shape,
        v |-> [p \in Idx(shape) |->
                 IF p[ax] >= endLo THEN val
                 ELSE IF p[ax] >= cs /\ p[ax] < cs + n
                      THEN d.v[[p EXCEPT ![ax] = @ - cs]]
                 ELSE IF p[ax] < cs THEN val
                 ELSE 0]]

\* Preprocessor.add_caps: a zero array longer by 2*cap_size along the axis,
\* then three slice assignments in this order: start cap, data, end cap.
\* A position takes the value of the last assignment that covers it.
add_caps(self, d, cap_size, axis, value) ==
    LET cs == PyOr(cap_size, self.cap_size)
        a == PyOrAxis(axis, self.cap_axis)
        val == PyOr(value, self.cap_value)
        ax == AxisIndex(a) + 1
        n == d.shape[ax]
        shape == [d.shape EXCEPT ![ax] = @ + 2 * cs]
        startHi == SliceStop(cs, shape[ax])            \* slice(0, cap_size)
        endLo == SliceStart(Neg(cs), shape[ax])        \* slice(-cap_size, None)
    IN [shape |-> shape,
        v |-> [p \in Idx(shape) |->
                 IF p[ax] >= endLo THEN val
                 ELSE IF p[ax] >= cs /\ p[ax] < cs + n
                      THEN d.v[[p EXCEPT ![ax] = @ - cs]]
                 ELSE IF p[ax] < startHi THEN val
                 ELSE 0]]

\* Preprocessor.add_padding: np.pad with a constant 0 on all three axes.
add_padding(self, d, pad_size) ==
    LET ps == PyOr(pad_size, self.padding_size)
        shape == [k \in 1..3 |-> d.shape[k] + 2 * ps]
    IN [shape |-> shape,
        v |-> [p \in Idx(shape) |->
                 IF \A k \in 1..3 : p[k] >= ps /\ p[k] < ps + d.shape[k]
                 THEN d.v[<<p[1] - ps, p[2] - ps, p[3] - ps>>]
                 ELSE 0]]

\* The three nested loops of blockify (z outer, x middle, y inner): acc is
\* subvolumes[0..idx-1], and each iteration stores add_caps(sub, cap_size, axis).
RECURSIVE BlockLoop(_, _, _, _, _, _, _, _, _, _, _, _)
BlockLoop(self, d, bs, cs, axis, nz, nx, ny, zi, xi, yi, acc) ==
    IF zi >= nz THEN acc
    ELSE IF xi >= nx THEN BlockLoop(self, d, bs, cs, axis, nz, nx, ny, zi + 1, 0, 0, acc)
    ELSE IF yi >= ny THEN BlockLoop(self, d, bs, cs, axis, nz, nx, ny, zi, xi + 1, 0, acc)
    ELSE LET sub == SubArray(d, <<zi * bs, xi * bs, yi * bs>>,
                                <<(zi + 1) * bs, (xi + 1) * bs, (yi + 1) * bs>>)
         IN BlockLoop(self, d, bs, cs, axis, nz, nx, ny, zi, xi, yi + 1,
                      Append(acc, add_caps(self, sub, cs, axis, None)))

\* The mutant counts the blocks per axis rounding up.
blockify_m_ceil(self, d, block_size, cap_size, axis) ==
    LET bs == PyOr(block_size, self.block_size)
        cs == PyOr(cap_size, self.cap_size)
        a == PyOrAxis(axis, self.cap_axis)
        nz == (d.shape[1] + bs - 1) \div bs
        nx == (d.shape[2] + bs - 1) \div bs
        ny == (d.shape[3] + bs - 1) \div bs
    IN BlockLoop(self, d, bs, cs, a, nz, nx, ny, 0, 0, 0, <<>>)

\* Preprocessor.blockify: the sequence subvolumes[0..n_blocks-1]
\* (element idx of the code is element idx+1 here).
blockify(self, d, block_size, cap_size, axis) ==
    LET bs == PyOr(block_size, self.block_size)
        cs == PyOr(cap_size, self.cap_size)
        a == PyOrAxis(axis, self.cap_axis)
        nz == d.shape[1] \div bs
        nx == d.shape[2] \div bs
        ny == d.shape[3] \div bs
    IN BlockLoop(self, d, bs, cs, a, nz, nx, ny, 0, 0, 0, <<>>)

\* Preprocessor.preprocess_single_block
preprocess_single_block(self, d) ==
    LET capped == add_caps(self, d, None, NoneAxis, None)
        padded == add_padding(self, capped, None)
    IN padded


----------------------------------------------------------------------------
(* Paths and dictionaries.                                                 *)

RECURSIVE Digits(_)
Digits(n) == IF n < 10 THEN <<n>> ELSE Append(Digits(n \div 10), n % 10)

RECURSIVE ZeroPad(_, _)
ZeroPad(s, width) == IF Len(s) >= width THEN s ELSE ZeroPad(<<0>> \o s, width)

\* The mutant formats the block index modulo 2.
Format04d_m_mod(i) == ZeroPad(Digits(i % 2), 4)

\* f"{i:04d}": the decimal digits of i, zero-padded to 4 places
Format04d(i) == ZeroPad(Digits(i), 4)

\* output_dir / f"block_{block_idx:04d}.stl"
MeshPath(output_dir, block_idx) == [dir |-> output_dir, name |-> Format04d(block_idx)]

\* mesh_path = None
NoPath == [dir |-> "", name |-> <<>>]

\* A dict is the set of its (key, value) pairs; {} is the empty dict.
MeshQuality(total, watertight) ==
    {<<"total_blocks", total>>, <<"watertight_blocks", watertight>>}

DictGet(d, key) == (CHOOSE kv \in d : kv[1] = key)[2]

DictKeys(d) == {kv[1] : kv \in d}

----------------------------------------------------------------------------
(* src/src/pipeline.py                                                     *)

\* What generate_mesh_from_array does on a block: it raises, or it returns a
\* mesh, and test_watertightness then counts that many boundary edges.
ExtractionRaises == -2

\* MeshGenerator().threshold of the pipeline's own mesh generator
MeshGeneratorThreshold == 127

\* config_dict of process_single_volume_parallel
ConfigDict(c) ==
    [cap_size |-> c.cap_size, cap_axis |-> c.cap_axis, cap_value |-> c.cap_value,
     padding_size |-> c.padding_size, block_size |-> c.block_size]

\* The tuple a task returns; raised marks an exception that left the task.
TaskResult(block_idx, mesh_path, boundary_edges) ==
    [block_idx |-> block_idx, mesh_path |-> mesh_path,
     boundary_edges |-> boundary_edges, raised |-> FALSE]

\* The mutant has no except clause: the exception leaves the task.
process_single_block_m_nocatch(args) ==
    LET processed_block == preprocess_single_block(args.config_dict, args.block_data)
        edges == oracle[args.block_idx]
    IN IF edges = ExtractionRaises
       THEN [ret |-> [TaskResult(args.block_idx, NoPath, -1) EXCEPT !.raised = TRUE],
             handed |-> processed_block, wrote |-> FALSE]
       ELSE [ret |-> TaskResult(args.block_idx,
                                MeshPath(args.output_dir, args.block_idx), edges),
             handed |-> processed_block, wrote |-> TRUE]

\* The mutant returns 0 boundary edges for a failed task.
process_single_block_m_zero(args) ==
    LET processed_block == preprocess_single_block(args.config_dict, args.block_data)
        edges == oracle[args.block_idx]
    IN IF edges = ExtractionRaises
       THEN [ret |-> TaskResult(args.block_idx, NoPath, 0),
             handed |-> processed_block, wrote |-> FALSE]
       ELSE [ret |-> TaskResult(args.block_idx,
                                MeshPath(args.output_dir, args.block_idx), edges),
             handed |-> processed_block, wrote |-> TRUE]

\* The mutant returns the mesh path of a failed task too.
process_single_block_m_keep(args) ==
    LET processed_block == preprocess_single_block(args.config_dict, args.block_data)
        edges == oracle[args.block_idx]
    IN IF edges = ExtractionRaises
       THEN [ret |-> TaskResult(args.block_idx,
                                MeshPath(args.output_dir, args.block_idx), -1),
             handed |-> processed_block, wrote |-> FALSE]
       ELSE [ret |-> TaskResult(args.block_idx,
                                MeshPath(args.output_dir, args.block_idx), edges),
             handed |-> processed_block, wrote |-> TRUE]

\* _process_single_block(args): ret is the tuple returned, handed the array
\* given to generate_mesh_from_array, wrote whether write_mesh was reached.
process_single_block(args) ==
    LET processed_block == preprocess_single_block(args.config_dict, args.block_data)
        edges == oracle[args.block_idx]
    IN IF edges = ExtractionRaises
       THEN [ret |-> TaskResult(args.block_idx, NoPath, -1),
             handed |-> processed_block, wrote |-> FALSE]
       ELSE [ret |-> TaskResult(args.block_idx,
                                MeshPath(args.output_dir, args.block_idx), edges),
             handed |-> processed_block, wrote |-> TRUE]

\* The mutant pairs every block with the index counted from the end.
MakeArgsList_m_rev(bl, output_dir, c, threshold) ==
    [k \in 1..Len(bl) |->
        [block_data |-> bl[k], block_idx |-> Len(bl) - k, output_dir |-> output_dir,
         config_dict |-> ConfigDict(c), threshold |-> threshold]]

\* args_list = [(block, i, output_dir, config_dict, threshold)
\*              for i, block in enumerate(blocks)]
MakeArgsList(bl, output_dir, c, threshold) ==
    [k \in 1..Len(bl) |->
        [block_data |-> bl[k], block_idx |-> k - 1, output_dir |-> output_dir,
         config_dict |-> ConfigDict(c), threshold |-> threshold]]

\* The mutant keeps the results in the order the tasks complete.
MapStore_m_unordered(s, pos, r) ==
    LET n == Cardinality(DOMAIN s) + 1
    IN [k \in (DOMAIN s) \cup {n} |-> IF k = n THEN r ELSE s[k]]

\* pool.map keeps what the task at position pos of args_list returned at
\* position pos of the list it returns.
MapStore(s, pos, r) ==
    [k \in (DOMAIN s) \cup {pos} |-> IF k = pos THEN r ELSE s[k]]

\* The mutant counts every result as watertight.
RECURSIVE CollectLoop_m_all(_, _, _, _)
CollectLoop_m_all(rs, k, om, wt) ==
    IF k > Len(rs) THEN [output_meshes |-> om, watertight_blocks |-> wt]
    ELSE IF rs[k].mesh_path # NoPath
         THEN CollectLoop_m_all(rs, k + 1, Append(om, rs[k].mesh_path), wt + 1)
         ELSE CollectLoop_m_all(rs, k + 1, om, wt + 1)

\* The "Collect results" loop of process_single_volume_parallel from result k on.
RECURSIVE CollectLoop(_, _, _, _)
CollectLoop(rs, k, om, wt) ==
    IF k > Len(rs) THEN [output_meshes |-> om, watertight_blocks |-> wt]
    ELSE IF rs[k].mesh_path # NoPath
         THEN CollectLoop(rs, k + 1, Append(om, rs[k].mesh_path),
                          IF rs[k].boundary_edges = 0 THEN wt + 1 ELSE wt)
         ELSE CollectLoop(rs, k + 1, om, wt)

\* PipelineResult (processing_time left out)
PipelineResult(input_path, meshes, quality, success, error_message) ==
    [input_path |-> input_path, output_meshes |-> meshes, mesh_quality |-> quality,
     success |-> success, error_message |-> error_message]

\* The mutant loses the exception's text.
FailureResult_m_nomsg(input_path, e) == PipelineResult(input_path, <<>>, {}, FALSE, "")

\* The except clause of both process_single_volume_* methods.
FailureResult(input_path, e) == PipelineResult(input_path, <<>>, {}, FALSE, e)

\* The mutant reports a run all of whose tasks failed as a failure.
ParallelResult_m_any(input_path, bl, rs) ==
    IF \A k \in 1..Len(rs) : rs[k].mesh_path = NoPath
    THEN FailureResult(input_path, "extraction failed")
    ELSE LET c == CollectLoop(rs, 1, <<>>, 0)
         IN PipelineResult(input_path, c.output_meshes,
                           MeshQuality(Len(bl), c.watertight_blocks), TRUE, "")

\* What process_single_volume_parallel returns once pool.map has returned rs
\* (or has raised the exception of a task).
ParallelResult(input_path, bl, rs) ==
    IF \E k \in 1..Len(rs) : rs[k].raised
    THEN FailureResult(input_path, "extraction failed")
    ELSE LET c == CollectLoop(rs, 1, <<>>, 0)
         IN PipelineResult(input_path, c.output_meshes,
                           MeshQuality(Len(bl), c.watertight_blocks), TRUE, "")

InputPath == "volume.tif"
OutputDir == "out"

WriteFile(fs, path, mesh) ==
    [p \in (DOMAIN fs) \cup {path} |-> IF p = path THEN mesh ELSE fs[p]]

----------------------------------------------------------------------------
(* Inputs.                                                                 *)

Axes == {"z", "y", "x"}

\* cap values tried: the default 255 and 0
CapValues == {0, 255}

\* boundary-edge counts tried: watertight and not
EdgeCounts == {0, 2}

\* A volume whose voxels are pairwise different and different from 0 and
\* from every cap value, so that the place a voxel ends up in is visible:
\* voxel (z,x,y) holds 1 + its row-major position.
Volume(shape) ==
    [shape |-> shape,
     v |-> [p \in Idx(shape) |-> 1 + (p[1] * shape[2] + p[2]) * shape[3] + p[3]]]

Shapes == (1..MaxDim) \X (1..MaxDim) \X (1..MaxDim)

Configs ==
    [cap_size : 1..MaxCap, cap_axis : Axes, cap_value : CapValues,
     padding_size : 0..MaxPad, block_size : 1..MaxBlockSize]

NoCall == [op |-> "none", a1 |-> None, a2 |-> None, a3 |-> NoneAxis]

NoArray == Zeros(<<0, 0, 0>>)

EmptyMap == [k \in {} |-> 0]

PreIdle ==
    /\ call = NoCall
    /\ ret = NoArray
    /\ retBlocks = <<>>

PipeIdle ==
    /\ pc = "idle"
    /\ modes = <<>>
    /\ results = <<>>
    /\ blocks = <<>>
    /\ taken = 0
    /\ running = {}
    /\ slots = EmptyMap
    /\ overtaken = FALSE
    /\ loop_i = 0
    /\ output_meshes = <<>>
    /\ mesh_quality = {}
    /\ files = EmptyMap
    /\ handed = {}
    /\ written = {}

NoArgs == [input |-> "none", threshold |-> None, no_parallel |-> FALSE]

\* run_pipeline.main has not been started.
RunIdle ==
    /\ main_args = NoArgs
    /\ tiff_files = <<>>
    /\ rpc = "off"
    /\ file_i = 0
    /\ saved = <<>>
    /\ effects = <<>>

NoTab == [state |-> "idle", use_parallel |-> FALSE, results |-> <<>>]

\* process_tiff_file has not been called.
TabIdle == tab = NoTab

----------------------------------------------------------------------------
(* The preprocessor API called once on a volume.                           *)

InitPre ==
    /\ config \in Configs
    /\ data \in {Volume(s) : s \in Shapes}
    /\ PreIdle
    /\ PipeIdle
    /\ num_processes = 1
    /\ ctor_num_processes = 1
    /\ oracle = EmptyMap
    /\ RunIdle
    /\ TabIdle

CallAddCaps ==
    /\ call = NoCall
    /\ \E cs \in {None} \cup (0..MaxCap), ax \in {NoneAxis} \cup Axes,
          val \in {None} \cup CapValues :
        /\ call' = [op |-> "add_caps", a1 |-> cs, a2 |-> val, a3 |-> ax]
        /\ ret' = add_caps(config, data, cs, ax, val)
        /\ retBlocks' = <<>>
    /\ UNCHANGED <<uiVars, runVars, config, data, pipeVars>>

CallAddPadding ==
    /\ call = NoCall
    /\ \E ps \in {None} \cup (0..MaxPad) :
        /\ call' = [op |-> "add_padding", a1 |-> ps, a2 |-> None, a3 |-> NoneAxis]
        /\ ret' = add_padding(config, data, ps)
        /\ retBlocks' = <<>>
    /\ UNCHANGED <<uiVars, runVars, config, data, pipeVars>>

\* blockify(data), as both of its callers call it
CallBlockify ==
    /\ call = NoCall
    /\ call' = [op |-> "blockify", a1 |-> None, a2 |-> None, a3 |-> NoneAxis]
    /\ retBlocks' = blockify(config, data, None, None, NoneAxis)
    /\ ret' = NoArray
    /\ UNCHANGED <<uiVars, runVars, config, data, pipeVars>>

CallPreprocessSingleBlock ==
    /\ call = NoCall
    /\ call' = [op |-> "preprocess_single_block", a1 |-> None, a2 |-> None,
                a3 |-> NoneAxis]
    /\ ret' = preprocess_single_block(config, data)
    /\ retBlocks' = <<>>
    /\ UNCHANGED <<uiVars, runVars, config, data, pipeVars>>

NextPre ==
    \/ CallAddCaps
    \/ CallAddPadding
    \/ CallBlockify
    \/ CallPreprocessSingleBlock

SpecPre == InitPre /\ [][NextPre]_vars

----------------------------------------------------------------------------
(* MeshPipeline.process_single_volume on one input: in parallel mode, in   *)
(* sequential mode, or in parallel and then in sequential mode. The caller *)
(* appends what it returns to pipeline.results.                            *)

MaxBlocks == 4       \* the volumes processed decompose into at most MaxBlocks blocks
MaxProcs == 2        \* num_processes is 1..MaxProcs

\* The pipeline is run with the default cap_value and a cap of one slice.
\* mp.cpu_count() of the host
cpu_count == MaxProcs

\* The mutant takes the argument as it is.
MeshPipeline_num_processes_m_raw(n) == n

\* MeshPipeline.__init__: self.num_processes = num_processes or mp.cpu_count()
MeshPipeline_num_processes(n) == PyOr(n, cpu_count)

\* The mutant lets pool.map return once the tasks before some position of
\* args_list have returned.
MapDone_m_prefix(s, n) == \E m \in 0..n : DOMAIN s = 1..m /\ (m >= 1 \/ n = 0)

\* The mutant waits for one result more than there are tasks.
MapDone_m_more(s, n) == DOMAIN s = 1..(n + 1)

\* pool.map(f, args_list) returns when each of the n tasks has returned.
MapDone(s, n) == DOMAIN s = 1..n

PipeConfigs == {c \in Configs : c.cap_value = 255 /\ c.cap_size = 1}

Init ==
    /\ config \in PipeConfigs
    /\ data \in {Volume(s) : s \in Shapes}
    /\ Len(blockify(config, data, None, None, NoneAxis)) <= MaxBlocks
    /\ ctor_num_processes \in {None} \cup (0..MaxProcs)
    /\ num_processes = MeshPipeline_num_processes(ctor_num_processes)
    /\ oracle \in [0..(Len(blockify(config, data, None, None, NoneAxis)) - 1)
                     -> {ExtractionRaises} \cup EdgeCounts]
    /\ PreIdle
    /\ PipeIdle
    /\ RunIdle
    /\ TabIdle

Used(mode) == \E k \in 1..Len(modes) : modes[k] = mode

\* local args_list of process_single_volume_parallel, built from its blocks
args_list == MakeArgsList(blocks, OutputDir, config, MeshGeneratorThreshold)

\* process_single_volume(use_parallel=True) up to the pool: load, blockify,
\* mkdir, args_list, mp.Pool(processes=self.num_processes)
StartParallel ==
    /\ pc = "idle"
    /\ modes = <<>>
    /\ modes' = Append(modes, TRUE)
    /\ blocks' = blockify(config, data, None, None, NoneAxis)
    /\ taken' = 0
    /\ running' = {}
    /\ slots' = EmptyMap
    /\ overtaken' = FALSE
    /\ handed' = {}
    /\ written' = {}
    /\ pc' = "pool"
    /\ UNCHANGED <<uiVars, runVars, config, data, preVars, num_processes, oracle, results, loop_i,
                   output_meshes, mesh_quality, files>>

\* An idle worker takes the next task of args_list.
WorkerTake ==
    /\ pc = "pool"
    /\ taken < Len(args_list)
    /\ Cardinality(running) < num_processes
    /\ taken' = taken + 1
    /\ running' = running \cup {taken + 1}
    /\ UNCHANGED <<uiVars, runVars, config, data, preVars, num_processes, oracle, pc, modes, results,
                   blocks, slots, overtaken, loop_i, output_meshes, mesh_quality,
                   files, handed, written>>

\* A worker runs _process_single_block on its task to the end.
WorkerFinish ==
    /\ pc = "pool"
    /\ \E k \in running :
        LET r == process_single_block(args_list[k])
        IN /\ running' = running \ {k}
           /\ slots' = MapStore(slots, k, r.ret)
           /\ overtaken' = (overtaken \/ \E j \in 1..(k - 1) : j \notin DOMAIN slots)
           /\ handed' = handed \cup
                  {[block_idx |-> args_list[k].block_idx, array |-> r.handed]}
           /\ files' = IF r.wrote
                       THEN WriteFile(files, r.ret.mesh_path, args_list[k].block_idx)
                       ELSE files
           /\ written' = IF r.wrote THEN written \cup {r.ret.mesh_path} ELSE written
    /\ UNCHANGED <<uiVars, runVars, config, data, preVars, num_processes, oracle, pc, modes, results,
                   blocks, taken, loop_i, output_meshes, mesh_quality>>

\* pool.map returns, the results are collected, the PipelineResult is returned.
PoolReturn ==
    /\ pc = "pool"
    /\ MapDone(slots, Len(args_list))
    /\ results' = Append(results,
           ParallelResult(InputPath, blocks, [k \in DOMAIN slots |-> slots[k]]))
    /\ pc' = "idle"
    /\ UNCHANGED <<uiVars, runVars, config, data, preVars, num_processes, oracle, modes, blocks,
                   taken, running, slots, overtaken, loop_i, output_meshes,
                   mesh_quality, files, handed, written>>

\* process_single_volume(use_parallel=False) up to its loop
StartSequential ==
    /\ pc = "idle"
    /\ ~Used(FALSE)
    /\ modes' = Append(modes, FALSE)
    /\ blocks' = blockify(config, data, None, None, NoneAxis)
    /\ output_meshes' = <<>>
    /\ mesh_quality' = MeshQuality(Len(blocks'), 0)
    /\ loop_i' = 0
    /\ handed' = {}
    /\ written' = {}
    /\ pc' = "loop"
    /\ UNCHANGED <<uiVars, runVars, config, data, preVars, num_processes, oracle, results,
                   taken, running, slots, overtaken, files>>

\* One iteration of `for i, block in enumerate(blocks)`; an exception ends
\* the method in its except clause.
LoopStep ==
    /\ pc = "loop"
    /\ loop_i < Len(blocks)
    /\ LET block == blocks[loop_i + 1]
           processed_block == preprocess_single_block(config, block)
           boundary_edges == oracle[loop_i]
           mesh_path == MeshPath(OutputDir, loop_i)
       IN /\ handed' = handed \cup {[block_idx |-> loop_i, array |-> processed_block]}
          /\ IF boundary_edges = ExtractionRaises
             THEN /\ results' = Append(results,
                                       FailureResult(InputPath, "extraction failed"))
                  /\ pc' = "idle"
                  /\ UNCHANGED <<loop_i, output_meshes, mesh_quality, files, written>>
             ELSE /\ mesh_quality' =
                        IF boundary_edges = 0
                        THEN MeshQuality(DictGet(mesh_quality, "total_blocks"),
                                         DictGet(mesh_quality, "watertight_blocks") + 1)
                        ELSE mesh_quality
                  /\ files' = WriteFile(files, mesh_path, loop_i)
                  /\ written' = written \cup {mesh_path}
                  /\ output_meshes' = Append(output_meshes, mesh_path)
                  /\ loop_i' = loop_i + 1
                  /\ UNCHANGED <<results, pc>>
    /\ UNCHANGED <<uiVars, runVars, config, data, preVars, num_processes, oracle, modes, blocks,
                   taken, running, slots, overtaken>>

\* The loop is over: the PipelineResult is returned.
LoopReturn ==
    /\ pc = "loop"
    /\ loop_i = Len(blocks)
    /\ results' = Append(results,
           PipelineResult(InputPath, output_meshes, mesh_quality, TRUE, ""))
    /\ pc' = "idle"
    /\ UNCHANGED <<uiVars, runVars, config, data, preVars, num_processes, oracle, modes, blocks,
                   taken, running, slots, overtaken, loop_i, output_meshes,
                   mesh_quality, files, handed, written>>

Next ==
    \/ StartParallel
    \/ WorkerTake
    \/ WorkerFinish
    \/ PoolReturn
    \/ StartSequential
    \/ LoopStep
    \/ LoopReturn

Spec == Init /\ [][Next]_vars

----------------------------------------------------------------------------
(* src/src/data_loader.py and the whole process_single_volume_* methods,   *)
(* as run_pipeline.main calls them.                                         *)

\* What is at an input path when process_single_volume loads it:
\*   load = "missing"     no file (load_tif raises FileNotFoundError)
\*   load = "unreadable"  tifffile.imread raises
\*   load = "flat"        a 2-D image of shape (shape[2], shape[3])
\*   load = "ok"          a 3-D volume of that shape
\* mkdir_ok tells whether output_dir.mkdir of the method succeeds.
InputFile(name, load, shape, mkdir_ok) ==
    [name |-> name, load |-> load, shape |-> shape, mkdir_ok |-> mkdir_ok]

\* DataLoader.load_tif(path): raised with the exception's text, or the array
\* (astype makes it uint8 whatever the file holds).
load_tif(f) ==
    IF f.load = "missing"
    THEN [raised |-> TRUE, error |-> "File not found", data |-> NoArray]
    ELSE IF f.load = "unreadable"
    THEN [raised |-> TRUE, error |-> "not a TIFF file", data |-> NoArray]
    ELSE IF f.load = "flat"
    THEN [raised |-> FALSE, error |-> "",
          data |-> [shape |-> <<f.shape[2], f.shape[3]>>, v |-> EmptyMap]]
    ELSE [raised |-> FALSE, error |-> "", data |-> Volume(f.shape)]

\* The mutant accepts every array.
validate_data_m_true(d) == d = d

\* DataLoader.validate_data(data); the dtype is uint8 after load_tif.
validate_data(d) ==
    /\ Len(d.shape) = 3
    /\ \A p \in Idx(d.shape) : d.v[p] <= 255 /\ d.v[p] >= 0

\* What one call of process_single_volume did besides returning its result:
\* calls of blockify, tasks handed to the extraction, mesh paths written
\* (path -> block index), thresholds the extraction was invoked with.
Effects(blockify_calls, tasks, wrote, thresholds) ==
    [blockify_calls |-> blockify_calls, tasks |-> tasks, wrote |-> wrote,
     thresholds |-> thresholds]

\* The method up to and including output_dir.mkdir: ok with the blocks, or
\* the exception text and the number of blockify calls made.
LoadAndBlockify(self, f) ==
    LET ld == load_tif(f)
    IN IF ld.raised
       THEN [ok |-> FALSE, error |-> ld.error, calls |-> 0, blocks |-> <<>>]
       ELSE IF ~validate_data(ld.data)
       THEN [ok |-> FALSE, error |-> "Invalid data format", calls |-> 0, blocks |-> <<>>]
       ELSE IF Len(ld.data.shape) # 3
       THEN [ok |-> FALSE, error |-> "not enough values to unpack", calls |-> 1,
             blocks |-> <<>>]
       ELSE IF ~f.mkdir_ok
       THEN [ok |-> FALSE, error |-> "Permission denied", calls |-> 1, blocks |-> <<>>]
       ELSE [ok |-> TRUE, error |-> "", calls |-> 1,
             blocks |-> blockify(self, ld.data, None, None, NoneAxis)]

\* process_single_volume_parallel(input_path, output_dir), pool.map included
process_single_volume_parallel(self, input_path, output_dir, f) ==
    LET pre == LoadAndBlockify(self, f)
    IN IF ~pre.ok
       THEN [result |-> FailureResult(input_path, pre.error),
             effects |-> Effects(pre.calls, 0, EmptyMap, {})]
       ELSE LET al == MakeArgsList(pre.blocks, output_dir, self, MeshGeneratorThreshold)
                rs == [k \in 1..Len(al) |-> process_single_block(al[k])]
                wr == {k \in 1..Len(al) : rs[k].wrote}
            IN [result |-> ParallelResult(input_path, pre.blocks,
                                          [k \in 1..Len(al) |-> rs[k].ret]),
                effects |-> Effects(pre.calls, Len(al),
                    [p \in {rs[k].ret.mesh_path : k \in wr} |->
                        al[CHOOSE k \in wr : rs[k].ret.mesh_path = p].block_idx],
                    {al[k].threshold : k \in 1..Len(al)})]

\* The loop of _process_single_volume_sequential from iteration i on; acc is
\* [raised, output_meshes, watertight_blocks, wrote, tasks].
RECURSIVE SequentialLoop(_, _, _, _)
SequentialLoop(bl, output_dir, i, acc) ==
    IF i >= Len(bl) THEN acc
    ELSE LET boundary_edges == oracle[i]
             mesh_path == MeshPath(output_dir, i)
         IN IF boundary_edges = ExtractionRaises
            THEN [acc EXCEPT !.raised = TRUE, !.tasks = i + 1]
            ELSE SequentialLoop(bl, output_dir, i + 1,
                     [acc EXCEPT !.output_meshes = Append(@, mesh_path),
                                 !.watertight_blocks =
                                     IF boundary_edges = 0 THEN @ + 1 ELSE @,
                                 !.wrote = WriteFile(@, mesh_path, i),
                                 !.tasks = i + 1])

\* _process_single_volume_sequential(input_path, output_dir)
process_single_volume_sequential(self, input_path, output_dir, f) ==
    LET pre == LoadAndBlockify(self, f)
    IN IF ~pre.ok
       THEN [result |-> FailureResult(input_path, pre.error),
             effects |-> Effects(pre.calls, 0, EmptyMap, {})]
       ELSE LET l == SequentialLoop(pre.blocks, output_dir, 0,
                         [raised |-> FALSE, output_meshes |-> <<>>,
                          watertight_blocks |-> 0, wrote |-> EmptyMap, tasks |-> 0])
                eff == Effects(pre.calls, l.tasks, l.wrote,
                               IF l.tasks > 0 THEN {MeshGeneratorThreshold} ELSE {})
            IN IF l.raised
               THEN [result |-> FailureResult(input_path, "extraction failed"),
                     effects |-> eff]
               ELSE [result |-> PipelineResult(input_path, l.output_meshes,
                                    MeshQuality(Len(pre.blocks), l.watertight_blocks),
                                    TRUE, ""),
                     effects |-> eff]

\* process_single_volume(input_path, output_dir, use_parallel)
process_single_volume(self, input_path, output_dir, use_parallel, f) ==
    IF use_parallel
    THEN process_single_volume_parallel(self, input_path, output_dir, f)
    ELSE process_single_volume_sequential(self, input_path, output_dir, f)

\* asdict(r) as json.dump(..., default=str) writes it
AsDict(r) ==
    [input_path |-> r.input_path, output_meshes |-> r.output_meshes,
     mesh_quality |-> r.mesh_quality, success |-> r.success,
     error_message |-> r.error_message]

\* The number of elements of rs with success (sum(1 for r in rs if r.success)).
RECURSIVE CountSuccess(_)
CountSuccess(rs) ==
    IF rs = <<>> THEN 0
    ELSE (IF Head(rs).success THEN 1 ELSE 0) + CountSuccess(Tail(rs))

\* The mutant counts the successful results as the total.
save_pipeline_report_m_ok(rs) ==
    [results |-> rs,
     report |-> [total_files |-> CountSuccess(rs), successful_files |-> CountSuccess(rs),
                 results |-> [k \in 1..Len(rs) |-> AsDict(rs[k])]]]

\* The mutant takes the last result off the list while it reports.
save_pipeline_report_m_pop(rs) ==
    [results |-> IF rs = <<>> THEN rs ELSE SubSeq(rs, 1, Len(rs) - 1),
     report |-> [total_files |-> Len(rs), successful_files |-> CountSuccess(rs),
                 results |-> [k \in 1..Len(rs) |-> AsDict(rs[k])]]]

\* MeshPipeline.save_pipeline_report on self.results = rs: the report written
\* to pipeline_report.json and self.results after the call.
save_pipeline_report(rs) ==
    [results |-> rs,
     report |-> [total_files |-> Len(rs), successful_files |-> CountSuccess(rs),
                 results |-> [k \in 1..Len(rs) |-> AsDict(rs[k])]]]

\* The mutant drops a failed result.
ResultsAppend_m_ok(rs, r) == IF r.success THEN Append(rs, r) ELSE rs

\* pipeline.results.append(result)
ResultsAppend(rs, r) == Append(rs, r)

----------------------------------------------------------------------------
(* run_pipeline.py: main.                                                   *)

MaxFiles == 2        \* a directory holds at most MaxFiles TIFF files
MaxRunBlocks == 2    \* an input of the runner decomposes into at most MaxRunBlocks blocks
MaxSaves == 2        \* save_pipeline_report is called at most MaxSaves times

\* --threshold values
Thresholds == {100, 127}

\* The file names of an input directory: input_path.glob("*.tif") lists the
\* first two, input_path.glob("*.tiff") the third.
TifNames == {"a.tif", "b.tif"}
TiffNames == {"a.tiff"}

\* Path(name).stem
Stem(name) == CASE name = "a.tif" -> "a" [] name = "b.tif" -> "b" [] name = "a.tiff" -> "a"

\* output_dir / stem
Join(output_dir, stem) ==
    CASE stem = "a" -> "out/a" [] stem = "b" -> "out/b"

RunShapes == {s \in Shapes : s[1] = 1 /\ s[2] = 1 /\ s[3] <= MaxRunBlocks}

\* What a file of a given name can be.
InputFiles(name) ==
    {InputFile(name, "missing", <<1, 1, 1>>, TRUE),
     InputFile(name, "unreadable", <<1, 1, 1>>, TRUE),
     InputFile(name, "flat", <<1, 1, 1>>, TRUE)}
    \cup {InputFile(name, "ok", s, m) : s \in RunShapes, m \in BOOLEAN}

\* list(input_path.glob("*.tif")) + list(input_path.glob("*.tiff")): the
\* orders in which the names of a directory can be listed.
NameLists ==
    {l \in UNION {[1..n -> TifNames \cup TiffNames] : n \in 0..MaxFiles} :
        /\ \A i, j \in 1..Len(l) : i # j => l[i] # l[j]
        /\ \A i, j \in 1..Len(l) : (l[i] \in TiffNames /\ l[j] \in TifNames) => j < i}

\* The CLI has no option for cap_axis and cap_value: they keep their defaults.
RunConfigs == {c \in PipeConfigs : c.cap_axis = "z"}

InitRun ==
    /\ config \in RunConfigs
    /\ data = NoArray
    /\ ctor_num_processes = MaxProcs
    /\ num_processes = MeshPipeline_num_processes(ctor_num_processes)
    /\ TabIdle
    /\ oracle \in [0..(MaxRunBlocks - 1) -> {ExtractionRaises} \cup EdgeCounts]
    /\ PreIdle
    /\ PipeIdle
    /\ main_args \in [input : {"file", "dir"}, threshold : Thresholds,
                      no_parallel : BOOLEAN]
    /\ tiff_files = <<>>
    /\ rpc = "start"
    /\ file_i = 0
    /\ saved = <<>>
    /\ effects = <<>>

\* The files after the writes wr (path -> block index) of one call.
FilesAfter(fs, wr) ==
    [p \in (DOMAIN fs) \cup (DOMAIN wr) |-> IF p \in DOMAIN wr THEN wr[p] ELSE fs[p]]

\* input_path.is_file(): the one file is processed into output_dir.
MainSingleFile ==
    /\ rpc = "start"
    /\ main_args.input = "file"
    /\ \E f \in InputFiles("a.tif") :
        LET r == process_single_volume(config, f.name, OutputDir,
                                       ~main_args.no_parallel, f)
        IN /\ tiff_files' = <<f>>
           /\ results' = ResultsAppend(results, r.result)
           /\ effects' = Append(effects, r.effects)
           /\ files' = FilesAfter(files, r.effects.wrote)
    /\ file_i' = 1
    /\ rpc' = "save"
    /\ UNCHANGED <<uiVars, config, data, preVars, num_processes, oracle, pc, modes, blocks,
                   taken, running, slots, overtaken, loop_i, output_meshes,
                   mesh_quality, handed, written, main_args, saved>>

\* The else branch: the directory is listed; main returns when it holds no
\* TIFF file.
MainListDir ==
    /\ rpc = "start"
    /\ main_args.input = "dir"
    /\ \E l \in NameLists :
        \E fs \in [1..Len(l) -> UNION {InputFiles(n) : n \in TifNames \cup TiffNames}] :
            /\ \A k \in 1..Len(l) : fs[k].name = l[k]
            /\ tiff_files' = fs
            /\ rpc' = IF Len(l) = 0 THEN "returned" ELSE "loop"
    /\ UNCHANGED <<uiVars, config, data, preVars, pipeVars, main_args, file_i, saved, effects>>

\* One iteration of `for tiff_file in tiff_files`.
MainLoopStep ==
    /\ rpc = "loop"
    /\ file_i < Len(tiff_files)
    /\ LET f == tiff_files[file_i + 1]
           r == process_single_volume(config, f.name, Join(OutputDir, Stem(f.name)),
                                      ~main_args.no_parallel, f)
       IN /\ results' = ResultsAppend(results, r.result)
          /\ effects' = Append(effects, r.effects)
          /\ files' = FilesAfter(files, r.effects.wrote)
    /\ file_i' = file_i + 1
    /\ rpc' = IF file_i + 1 = Len(tiff_files) THEN "save" ELSE "loop"
    /\ UNCHANGED <<uiVars, config, data, preVars, num_processes, oracle, pc, modes, blocks,
                   taken, running, slots, overtaken, loop_i, output_meshes,
                   mesh_quality, handed, written, main_args, tiff_files, saved>>

\* pipeline.save_pipeline_report(output_dir) at the end of main
MainSaveReport ==
    /\ rpc = "save"
    /\ LET s == save_pipeline_report(results)
       IN /\ saved' = Append(saved, s.report)
          /\ results' = s.results
    /\ rpc' = "done"
    /\ UNCHANGED <<uiVars, config, data, preVars, num_processes, oracle, pc, modes, blocks,
                   taken, running, slots, overtaken, loop_i, output_meshes,
                   mesh_quality, files, handed, written, main_args, tiff_files,
                   file_i, effects>>

\* save_pipeline_report called once more on the same pipeline
CallSaveReport ==
    /\ rpc = "done"
    /\ Len(saved) < MaxSaves
    /\ LET s == save_pipeline_report(results)
       IN /\ saved' = Append(saved, s.report)
          /\ results' = s.results
    /\ UNCHANGED <<uiVars, config, data, preVars, num_processes, oracle, pc, modes, blocks,
                   taken, running, slots, overtaken, loop_i, output_meshes,
                   mesh_quality, files, handed, written, main_args, tiff_files,
                   rpc, file_i, effects>>

NextRun ==
    \/ MainSingleFile
    \/ MainListDir
    \/ MainLoopStep
    \/ MainSaveReport
    \/ CallSaveReport

SpecRun == InitRun /\ [][NextRun]_vars

----------------------------------------------------------------------------
(* The pipeline under fair scheduling: a worker that can take a task takes *)
(* one, a task that runs returns or raises, pool.map returns when it can,  *)
(* and the sequential loop keeps stepping.                                 *)

\* Volumes one voxel deep, unpadded: the scheduling is that of Spec.
InitLive ==
    /\ Init
    /\ data.shape[1] = 1
    /\ config.padding_size = 0
    /\ config.cap_axis = "z"

SpecLive ==
    /\ InitLive
    /\ [][Next]_vars
    /\ WF_vars(WorkerTake)
    /\ WF_vars(WorkerFinish)
    /\ WF_vars(PoolReturn)
    /\ WF_vars(LoopStep)
    /\ WF_vars(LoopReturn)

----------------------------------------------------------------------------
(* src/ui/tiff_tab.py: the interactive variant.                            *)

\* f'block{block_id:03}'
Format03d(i) == ZeroPad(Digits(i), 3)

\* working_dir / f'block{i:03}' / 'constant' / 'trimesh' / f'block{i:03}.stl'
SavePath(working_dir, block_id) == [dir |-> working_dir, name |-> Format03d(block_id)]

\* mesh_worker(args): raised when generate_mesh_from_array raises (the worker
\* has no except clause), else the tuple (block_id, save_path, boundary_edges)
\* it returns after writing the mesh.
mesh_worker(a) ==
    IF oracle[a.block_id] = ExtractionRaises
    THEN [raised |-> TRUE,
          ret |-> [block_id |-> a.block_id, save_path |-> NoPath, boundary_edges |-> -1]]
    ELSE [raised |-> FALSE,
          ret |-> [block_id |-> a.block_id,
                   save_path |-> SavePath(a.working_dir, a.block_id),
                   boundary_edges |-> oracle[a.block_id]]]

WorkingDir == "work"

\* process_tiff_file(tiff_file, ..., working_dir, use_parallel) on the array
\* the uploaded file holds; has_file is `tiff_file is not None`. What it does:
\*   state = "message"   returns the upload request
\*   state = "returned"  returns str(results)
\*   state = "raised"    an exception leaves the function (error names it)
\* and wrote, the mesh files written (path -> block index).
process_tiff_file(self, has_file, array, threshold, working_dir, use_parallel) ==
    IF ~has_file
    THEN [state |-> "message", use_parallel |-> use_parallel, results |-> <<>>,
          error |-> "", wrote |-> EmptyMap]
    ELSE LET bl == blockify(self, array, None, None, NoneAxis)
             al == [k \in 1..Len(bl) |->
                       [threshold |-> threshold, block |-> bl[k], block_id |-> k - 1,
                        padding_size |-> self.padding_size, working_dir |-> working_dir]]
             rs == [k \in 1..Len(al) |-> mesh_worker(al[k])]
         IN IF use_parallel
            THEN [state |-> IF \E k \in 1..Len(rs) : rs[k].raised
                            THEN "raised" ELSE "returned",
                  use_parallel |-> use_parallel,
                  results |-> IF \E k \in 1..Len(rs) : rs[k].raised
                              THEN <<>> ELSE [k \in 1..Len(rs) |-> rs[k].ret],
                  error |-> IF \E k \in 1..Len(rs) : rs[k].raised
                            THEN "extraction failed" ELSE "",
                  wrote |-> [q \in {rs[k].ret.save_path :
                                       k \in {j \in 1..Len(rs) : ~rs[j].raised}} |->
                                rs[CHOOSE k \in 1..Len(rs) :
                                       rs[k].ret.save_path = q].ret.block_id]]
            ELSE [state |-> "raised", use_parallel |-> use_parallel, results |-> <<>>,
                  error |-> "UnboundLocalError: results", wrote |-> EmptyMap]

\* The sliders of the tab give cap_size >= 1 and padding_size >= 1; cap_value
\* keeps its default.
TabConfigs == {c \in Configs : c.cap_value = 255 /\ c.padding_size >= 1}

InitTab ==
    /\ config \in TabConfigs
    /\ data \in {Volume(s) : s \in Shapes}
    /\ Len(blockify(config, data, None, None, NoneAxis)) <= MaxBlocks
    /\ oracle \in [0..(Len(blockify(config, data, None, None, NoneAxis)) - 1)
                     -> {ExtractionRaises} \cup EdgeCounts]
    /\ ctor_num_processes = MaxProcs
    /\ num_processes = MeshPipeline_num_processes(ctor_num_processes)
    /\ PreIdle
    /\ PipeIdle
    /\ RunIdle
    /\ TabIdle

\* The "Generate Meshes" button: one call of process_tiff_file.
ProcessTiffFile ==
    /\ tab = NoTab
    /\ \E has_file \in BOOLEAN, use_parallel \in BOOLEAN, threshold \in Thresholds :
        LET r == process_tiff_file(config, has_file, data, threshold, WorkingDir,
                                   use_parallel)
        IN /\ tab' = [state |-> r.state, use_parallel |-> r.use_parallel,
                      results |-> r.results]
           /\ files' = FilesAfter(files, r.wrote)
    /\ UNCHANGED <<config, data, preVars, runVars, ctor_num_processes, num_processes,
                   oracle, pc, modes, results, blocks, taken, running, slots,
                   overtaken, loop_i, output_meshes, mesh_quality, handed, written>>

NextTab == ProcessTiffFile

SpecTab == InitTab /\ [][NextTab]_vars

----------------------------------------------------------------------------
(* What the properties below are stated with.                              *)

\* floor(a / b), by its defining inequalities
Floor(a, b) == CHOOSE n \in 0..a : n * b <= a /\ a < (n + 1) * b

\* The grid of a volume shape under block size bs: <<nz, nx, ny>>.
Grid(shape, bs) == [k \in 1..3 |-> Floor(shape[k], bs)]

\* The values an array holds.
Values(arr) == {arr.v[p] : p \in Idx(arr.shape)}

\* The part of arr left when lo[k] entries are removed from the start and
\* hi[k] entries from the end of every axis k.
Strip(arr, lo, hi) ==
    LET sh == [k \in 1..3 |-> arr.shape[k] - lo[k] - hi[k]]
    IN [shape |-> sh,
        v |-> [p \in Idx(sh) |-> arr.v[<<p[1] + lo[1], p[2] + lo[2], p[3] + lo[3]>>]]]

\* The source region of grid cell (zi, xi, yi): the voxels of vol with
\* coordinates in [zi*bs,(zi+1)*bs) x [xi*bs,(xi+1)*bs) x [yi*bs,(yi+1)*bs).
Region(vol, bs, zi, xi, yi) ==
    [shape |-> <<bs, bs, bs>>,
     v |-> [p \in Idx(<<bs, bs, bs>>) |->
              vol.v[<<zi * bs + p[1], xi * bs + p[2], yi * bs + p[3]>>]]]

\* The cap axis as a tuple component: Z is the first axis of (D,H,W), Y the
\* second, X the third.
CapAxis(c) == CASE c.cap_axis = "z" -> 1 [] c.cap_axis = "y" -> 2 [] c.cap_axis = "x" -> 3

\* <<n, 0, 0>>, <<0, n, 0>> or <<0, 0, n>>
Along(ax, n) == [k \in 1..3 |-> IF k = ax THEN n ELSE 0]

\* The voxels of the volume that lie in no grid cell.
Remainder(vol, bs) ==
    {p \in Idx(vol.shape) : \E k \in 1..3 : p[k] >= Grid(vol.shape, bs)[k] * bs}

----------------------------------------------------------------------------
(* C1-C10                                                                  *)

\* C1: blockify returns exactly nz*nx*ny blocks, nz = floor(D/blockSize),
\* nx = floor(H/blockSize), ny = floor(W/blockSize), and no remainder voxel
\* (one with a coordinate >= n_axis*blockSize) appears in any block.
C1_PartitionCoverage ==
    call.op = "blockify" =>
        LET g == Grid(data.shape, config.block_size)
        IN /\ Len(retBlocks) = g[1] * g[2] * g[3]
           /\ \A p \in Remainder(data, config.block_size) :
                \A b \in 1..Len(retBlocks) : data.v[p] \notin Values(retBlocks[b])

\* A decomposition that returns a block and drops remainder voxels on every
\* axis.
C1_Witness ==
    /\ call.op = "blockify"
    /\ Len(retBlocks) >= 1
    /\ \A k \in 1..3 : data.shape[k] > Grid(data.shape, config.block_size)[k] * config.block_size

\* C9: in every block returned by blockify the first and the last capSize
\* slices along capAxis equal capValue everywhere, the region between them is
\* the source block, and the extents along the other two axes are blockSize.
C9_CapCorrectness ==
    call.op = "blockify" =>
        LET bs == config.block_size
            cs == config.cap_size
            ax == CapAxis(config)
            g == Grid(data.shape, bs)
        IN \A zi \in 0..(g[1] - 1), xi \in 0..(g[2] - 1), yi \in 0..(g[3] - 1) :
            LET b == retBlocks[(zi * g[2] + xi) * g[3] + yi + 1]
            IN /\ b.shape = [k \in 1..3 |-> IF k = ax THEN bs + 2 * cs ELSE bs]
               /\ \A p \in Idx(b.shape) :
                    (p[ax] < cs \/ p[ax] >= b.shape[ax] - cs) => b.v[p] = config.cap_value
               /\ Strip(b, Along(ax, cs), Along(ax, cs)) = Region(data, bs, zi, xi, yi)

\* Blocks capped with the value 0.
C9_Witness ==
    /\ call.op = "blockify"
    /\ Len(retBlocks) >= 1
    /\ config.cap_value = 0
    /\ config.cap_size >= 2

\* The padding size a call of add_padding asks for: its argument, or the
\* configured one when the argument is omitted.
RequestedPadding == IF call.a1 = None THEN config.padding_size ELSE call.a1

\* C10: for every input array and every paddingSize >= 0 add_padding returns
\* an array whose border of width paddingSize on every axis is 0 and whose
\* interior is the input: removing paddingSize from both ends of each axis
\* recovers the input.
C10_PaddingRoundTrip ==
    call.op = "add_padding" =>
        LET ps == RequestedPadding
        IN /\ ret.shape = [k \in 1..3 |-> data.shape[k] + 2 * ps]
           /\ \A p \in Idx(ret.shape) :
                (\E k \in 1..3 : p[k] < ps \/ p[k] >= ret.shape[k] - ps) => ret.v[p] = 0
           /\ Strip(ret, <<ps, ps, ps>>, <<ps, ps, ps>>) = data

----------------------------------------------------------------------------
(* The pipeline's properties.                                              *)

\* The number a digit sequence writes in decimal.
RECURSIVE ParseDigits(_)
ParseDigits(ds) ==
    IF ds = <<>> THEN 0 ELSE 10 * ParseDigits(SubSeq(ds, 1, Len(ds) - 1)) + ds[Len(ds)]

\* arr holds reg somewhere: a sub-array of arr of reg's shape equals reg.
Embeds(arr, reg) ==
    \E off \in Idx([k \in 1..3 |-> arr.shape[k] - reg.shape[k] + 1]) :
        Strip(arr, off, [k \in 1..3 |-> arr.shape[k] - reg.shape[k] - off[k]]) = reg

\* The source region the linear index i stands for: i = (zi*nx + xi)*ny + yi.
RegionOfIndex(i) ==
    LET g == Grid(data.shape, config.block_size)
    IN Region(data, config.block_size, i \div (g[2] * g[3]), (i \div g[3]) % g[2], i % g[3])

\* The block indices on which the extraction raises / returns a mesh.
Failing == {i \in DOMAIN oracle : oracle[i] = ExtractionRaises}
Succeeding == (DOMAIN oracle) \ Failing

\* The block index a mesh path names.
IndexOf(path) == ParseDigits(path.name)

\* process_single_volume_parallel has been called and pool.map has returned.
PoolMapReturned == modes # <<>> /\ modes[1] /\ pc # "pool"

\* C2: the block with linear index i = (zi*nx + xi)*ny + yi embeds exactly the
\* source region of grid cell (zi, xi, yi), the regions of two different
\* indices are disjoint, and the file block_<i> a task writes holds the mesh of
\* the extraction call for index i, whose array embeds that region.
C2_RowMajorIndex ==
    modes # <<>> =>
        LET bs == config.block_size
            cs == config.cap_size
            ax == CapAxis(config)
            g == Grid(data.shape, bs)
            inner(b) == Strip(b, Along(ax, cs), Along(ax, cs))
        IN /\ \A zi \in 0..(g[1] - 1), xi \in 0..(g[2] - 1), yi \in 0..(g[3] - 1) :
                LET i == (zi * g[2] + xi) * g[3] + yi
                IN /\ i + 1 \in 1..Len(blocks)
                   /\ inner(blocks[i + 1]) = Region(data, bs, zi, xi, yi)
           /\ \A i, j \in 1..Len(blocks) :
                i # j => Values(inner(blocks[i])) \cap Values(inner(blocks[j])) = {}
           /\ \A h \in handed : Embeds(h.array, RegionOfIndex(h.block_idx))
           /\ \A path \in DOMAIN files : IndexOf(path) = files[path]

\* A 2 x 2 grid of blocks all of whose files are written.
C2_Witness ==
    /\ Len(blocks) = 4
    /\ \E k \in 1..3 : Grid(data.shape, config.block_size)[k] = 1
    /\ Cardinality(DOMAIN files) = 4
    /\ Cardinality(handed) = 4

\* C3: the array handed to the extraction is the CappedBlock of the
\* decomposition with a zero border of width paddingSize on all three axes and
\* nothing else: its extent is blockSize + 2*capSize + 2*paddingSize along
\* capAxis and blockSize + 2*paddingSize along the other two axes.
C3_HandedIsPaddedCappedBlock ==
    \A h \in handed :
        LET bs == config.block_size
            cs == config.cap_size
            ps == config.padding_size
            ax == CapAxis(config)
            a == h.array
        IN /\ a.shape = [k \in 1..3 |-> IF k = ax THEN bs + 2 * cs + 2 * ps
                                                  ELSE bs + 2 * ps]
           /\ Strip(a, <<ps, ps, ps>>, <<ps, ps, ps>>) = blocks[h.block_idx + 1]
           /\ \A p \in Idx(a.shape) :
                (\E k \in 1..3 : p[k] < ps \/ p[k] >= a.shape[k] - ps) => a.v[p] = 0

\* C4: of N submitted tasks exactly one raises: pool.map returns N results,
\* exactly one of them failed (mesh_path None, boundary_edges -1) with the
\* failing block's index, the others are what their tasks return on their own,
\* and the exception leaves neither the task nor the pool, so the call succeeds.
C4_FailureIsolation ==
    (PoolMapReturned /\ Cardinality(Failing) = 1) =>
        LET n == Cardinality(DOMAIN oracle)
            f == CHOOSE i \in Failing : TRUE
        IN /\ DOMAIN slots = 1..n
           /\ {k \in 1..n : \/ slots[k].mesh_path = NoPath
                            \/ slots[k].boundary_edges = -1
                            \/ slots[k].raised} = {f + 1}
           /\ slots[f + 1] = TaskResult(f, NoPath, -1)
           /\ \A j \in Succeeding :
                slots[j + 1] = TaskResult(j, MeshPath(OutputDir, j), oracle[j])
           /\ results[1].success
           /\ Len(results[1].output_meshes) = n - 1

\* Three tasks of which the middle one raises, run by two workers.
C4_Witness ==
    /\ PoolMapReturned
    /\ Failing = {1}
    /\ Cardinality(DOMAIN oracle) = 3
    /\ num_processes = 2

\* C5: for the same input and the same extraction outcomes the sequential mode
\* returns the same totalBlocks, watertightBlocks, outputMeshes and success
\* flag as the parallel mode.
C5_SequentialEqualsParallel ==
    Len(results) = 2 =>
        /\ results[2].success = results[1].success
        /\ results[2].output_meshes = results[1].output_meshes
        /\ results[2].mesh_quality = results[1].mesh_quality

\* C6: when blockSize exceeds a dimension of the volume the run ends as a
\* failure carrying an error message, with no block produced and no task run.
C6_OversizedBlockRejected ==
    (\E k \in 1..3 : config.block_size > data.shape[k]) =>
        /\ blocks = <<>>
        /\ handed = {}
        /\ \A r \in 1..Len(results) :
             ~results[r].success /\ results[r].error_message # ""

\* C7: in every successful PipelineResult output_meshes holds exactly the
\* mesh paths of the succeeded tasks, in ascending block index order, whatever
\* order the tasks completed in.
C7_OutputMeshesAscending ==
    \A r \in 1..Len(results) :
        results[r].success =>
            LET om == results[r].output_meshes
            IN /\ \A a, b \in 1..Len(om) : a < b => IndexOf(om[a]) < IndexOf(om[b])
               /\ {om[a] : a \in 1..Len(om)} =
                      {MeshPath(OutputDir, i) : i \in Succeeding}
               /\ (r = 1 /\ modes[1]) =>
                      {om[a] : a \in 1..Len(om)} =
                          {slots[k].mesh_path : k \in DOMAIN slots} \ {NoPath}

\* A successful parallel result of several meshes whose tasks completed out
\* of index order.
C7_Witness ==
    /\ PoolMapReturned
    /\ results[1].success
    /\ Len(results[1].output_meshes) >= 2
    /\ Failing = {}
    /\ overtaken

\* C8: in every successful PipelineResult total_blocks is the number of tasks
\* submitted (the number of blocks of the decomposition), watertight_blocks
\* the number of task results with boundary_edges = 0, and the length of
\* output_meshes the number of succeeded task results.
C8_AggregationCounts ==
    \A r \in 1..Len(results) :
        results[r].success =>
            LET q == results[r].mesh_quality
                g == Grid(data.shape, config.block_size)
            IN /\ DictGet(q, "total_blocks") = g[1] * g[2] * g[3]
               /\ DictGet(q, "total_blocks") = Len(blocks)
               /\ DictGet(q, "watertight_blocks") =
                      Cardinality({i \in DOMAIN oracle : oracle[i] = 0})
               /\ Len(results[r].output_meshes) = Cardinality(Succeeding)
               /\ (r = 1 /\ modes[1]) =>
                    /\ DictGet(q, "total_blocks") = Cardinality(DOMAIN slots)
                    /\ DictGet(q, "watertight_blocks") =
                         Cardinality({k \in DOMAIN slots : slots[k].boundary_edges = 0})
                    /\ Len(results[r].output_meshes) =
                         Cardinality({k \in DOMAIN slots : slots[k].mesh_path # NoPath})

\* A successful parallel result over a failed, a watertight and a leaky block.
C8_Witness ==
    /\ PoolMapReturned
    /\ results[1].success
    /\ Failing # {}
    /\ \E i \in Succeeding : oracle[i] = 0
    /\ \E i \in Succeeding : oracle[i] > 0

----------------------------------------------------------------------------
(* C11-C20                                                                 *)

\* The number of blocks the input f decomposes into under the run's config.
NBlocks(f) ==
    LET g == Grid(f.shape, config.block_size) IN g[1] * g[2] * g[3]

\* The input f makes process_single_volume fail as a whole: the load, the
\* validation or the mkdir fails, or (sequential mode, where no task boundary
\* catches it) the extraction raises on one of its blocks.
PipelineFailure(f) ==
    \/ f.load # "ok"
    \/ ~f.mkdir_ok
    \/ /\ main_args.no_parallel
       /\ \E i \in 0..(NBlocks(f) - 1) : oracle[i] = ExtractionRaises

\* C11: whatever fails while one input is processed (file missing, load error,
\* validation failure, output directory not creatable, an exception in the
\* sequential loop), process_single_volume returns to its caller a result with
\* success = FALSE, a non-empty error message and no output meshes, in
\* parallel and in sequential mode.
C11_PipelineFailureRecovered ==
    /\ Len(results) = Len(effects)
    /\ rpc \in {"loop", "save"} => Len(results) = file_i
    /\ \A k \in 1..Len(results) :
        PipelineFailure(tiff_files[k]) =>
            /\ ~results[k].success
            /\ results[k].error_message # ""
            /\ results[k].output_meshes = <<>>

\* A batch whose first input cannot be read and whose second input fails in
\* the sequential loop after its first block was written.
C11_Witness ==
    /\ Len(results) = 2
    /\ tiff_files[1].load = "unreadable"
    /\ tiff_files[2].load = "ok" /\ tiff_files[2].mkdir_ok
    /\ main_args.no_parallel
    /\ effects[2].tasks = 2
    /\ ~results[2].success

\* C12: for an input whose loaded array is not 3-dimensional, blockify is
\* never called, no task is submitted, no mesh file is written, and the
\* result has success = FALSE.
C12_InvalidVolumeFailsFast ==
    \A k \in 1..Len(results) :
        tiff_files[k].load = "flat" =>
            /\ effects[k].blockify_calls = 0
            /\ effects[k].tasks = 0
            /\ effects[k].wrote = EmptyMap
            /\ ~results[k].success

\* An invalid input has been processed after a valid one that wrote a mesh.
C12_Witness ==
    /\ Len(results) = 2
    /\ tiff_files[2].load = "flat"
    /\ results[1].success
    /\ DOMAIN files # {}

\* C13: in a directory run the loop goes through all k listed files whatever
\* fails: when it is over, results holds exactly one entry per file, in the
\* order of the files and none twice, and so does every report written; each
\* entry carries a success flag and an error message.
C13_BatchListsEveryInput ==
    /\ (main_args.input = "dir" /\ rpc = "loop") => Len(results) = file_i
    /\ (main_args.input = "dir" /\ rpc \in {"save", "done"}) =>
        /\ Len(results) = Len(tiff_files)
        /\ \A k \in 1..Len(results) : results[k].input_path = tiff_files[k].name
        /\ \A i, j \in 1..Len(results) :
            i # j => results[i].input_path # results[j].input_path
        /\ \A n \in 1..Len(saved) :
            /\ Len(saved[n].results) = Len(tiff_files)
            /\ \A k \in 1..Len(tiff_files) :
                /\ saved[n].results[k].input_path = tiff_files[k].name
                /\ {"success", "error_message"} \subseteq DOMAIN saved[n].results[k]
                /\ saved[n].results[k].success = results[k].success

\* A directory run whose first input failed and whose second one succeeded
\* has written its report.
C13_Witness ==
    /\ main_args.input = "dir"
    /\ rpc = "done"
    /\ Len(tiff_files) = 2
    /\ ~results[1].success
    /\ results[2].success
    /\ saved # <<>>

\* C14: when main has ended, pipeline_report.json has been written.
C14_ReportAlwaysWritten ==
    rpc \in {"done", "returned"} => saved # <<>>

\* C15: every extraction call of the run was made with the --threshold value
\* of the command line.
C15_ThresholdPassed ==
    \A k \in 1..Len(effects) :
        \A t \in effects[k].thresholds : t = main_args.threshold

\* C16: every report written has total_files = the number of accumulated
\* results, successful_files = the number of them with success, and one
\* results entry per accumulated result, in accumulation order.
C16_ReportCounts ==
    \A n \in 1..Len(saved) :
        /\ saved[n].total_files = Len(results)
        /\ saved[n].successful_files =
               Cardinality({k \in 1..Len(results) : results[k].success})
        /\ Len(saved[n].results) = Len(results)
        /\ \A k \in 1..Len(results) : saved[n].results[k] = AsDict(results[k])

\* A report over a failed and a successful result.
C16_Witness ==
    /\ saved # <<>>
    /\ Len(results) = 2
    /\ results[1].success
    /\ ~results[2].success

\* C17: a call of save_pipeline_report leaves the accumulated results as they
\* were, and a call that follows another one writes the same total_files and
\* successful_files as the one before.
C17_SaveIdempotent ==
    [][Len(saved') = Len(saved) + 1 =>
        /\ results' = results
        /\ saved # <<>> =>
            /\ saved'[Len(saved')].total_files = saved[Len(saved)].total_files
            /\ saved'[Len(saved')].successful_files =
                   saved[Len(saved)].successful_files]_vars

\* The report has been saved twice over a failed and a successful result.
C17_Witness ==
    /\ Len(saved) = 2
    /\ Len(results) = 2
    /\ ~results[1].success
    /\ results[2].success

\* C18: after the parallel and the sequential run of the same volume under
\* the same config, both results report total_blocks and report the same
\* number, and every array handed to the extraction in either mode embeds the
\* source region of its block index.
C18_SameIndexingAndTotal ==
    /\ \A h \in handed : Embeds(h.array, RegionOfIndex(h.block_idx))
    /\ (pc = "idle" /\ Len(results) = 2) =>
        /\ "total_blocks" \in DictKeys(results[1].mesh_quality)
        /\ "total_blocks" \in DictKeys(results[2].mesh_quality)
        /\ DictGet(results[1].mesh_quality, "total_blocks") =
               DictGet(results[2].mesh_quality, "total_blocks")

\* C19: every results entry of every report written has a mesh_quality with
\* the keys total_blocks and watertight_blocks.
C19_ReportEntriesHaveQuality ==
    \A n \in 1..Len(saved) :
        \A k \in 1..Len(saved[n].results) :
            {"total_blocks", "watertight_blocks"} \subseteq
                DictKeys(saved[n].results[k].mesh_quality)

\* C20: the mesh path of a task is output_dir with the name made of the
\* zero-padded block index alone, the paths of two tasks of different indices
\* differ, and so do the paths of any two tasks running at the same time.
C20_DistinctPathPerIndex ==
    /\ \A k \in 1..Len(args_list) :
        LET p == MeshPath(args_list[k].output_dir, args_list[k].block_idx)
        IN /\ p.dir = OutputDir
           /\ Len(p.name) >= 4
           /\ ParseDigits(p.name) = args_list[k].block_idx
    /\ \A k, j \in 1..Len(args_list) :
        args_list[k].block_idx # args_list[j].block_idx =>
            MeshPath(args_list[k].output_dir, args_list[k].block_idx) #
                MeshPath(args_list[j].output_dir, args_list[j].block_idx)
    /\ \A k \in DOMAIN slots :
        slots[k].mesh_path # NoPath =>
            slots[k].mesh_path = MeshPath(OutputDir, args_list[k].block_idx)
    /\ pc = "pool" =>
        \A k, j \in running :
            k # j => MeshPath(args_list[k].output_dir, args_list[k].block_idx) #
                         MeshPath(args_list[j].output_dir, args_list[j].block_idx)

\* Two tasks run at the same time while a third one has written its file.
C20_Witness ==
    /\ pc = "pool"
    /\ Cardinality(running) = 2
    /\ DOMAIN files # {}

----------------------------------------------------------------------------
(* C21-C30                                                                 *)

\* C21: in every tuple a task returned, the mesh path is None exactly when
\* boundary_edges is -1 and exactly when the task failed; a task that
\* succeeded returns its own mesh path, boundary_edges >= 0 and the block index
\* it was given.
C21_TaskResultShape ==
    \A k \in DOMAIN slots :
        LET r == slots[k]
            i == args_list[k].block_idx
            failed == oracle[i] = ExtractionRaises
        IN /\ r.block_idx = i
           /\ (r.mesh_path = NoPath) <=> (r.boundary_edges = -1)
           /\ (r.boundary_edges = -1) <=> failed
           /\ ~failed => /\ r.mesh_path = MeshPath(OutputDir, i)
                         /\ r.boundary_edges >= 0

\* pool.map has gathered a failed and a succeeded task.
C21_Witness ==
    /\ \E k \in DOMAIN slots : slots[k].mesh_path = NoPath
    /\ \E k \in DOMAIN slots : slots[k].boundary_edges >= 0
    /\ Cardinality(DOMAIN slots) >= 3

\* C22: process_single_volume_parallel leaves the pool and builds its result
\* only when no task of args_list is queued or running and every task has
\* returned.
C22_GatherAll ==
    [][(pc = "pool" /\ pc' # "pool") =>
        /\ running = {}
        /\ taken = Len(args_list)
        /\ \A k \in 1..Len(args_list) : k \in DOMAIN slots]_vars

\* The parallel run of four blocks has returned after a task overtook another.
C22_Witness ==
    /\ PoolMapReturned
    /\ results # <<>>
    /\ Len(args_list) = 4
    /\ overtaken

\* C23: never more than num_processes tasks run at the same time, and
\* num_processes is the host's core count when MeshPipeline was built with
\* num_processes None or 0, and the number given otherwise.
C23_BoundedWorkers ==
    /\ Cardinality(running) <= num_processes
    /\ ctor_num_processes \in {None, 0} => num_processes = cpu_count
    /\ ctor_num_processes \notin {None, 0} => num_processes = ctor_num_processes

\* A pipeline built with num_processes = 0 runs as many tasks as the host has
\* cores while another task waits in the queue.
C23_Witness ==
    /\ ctor_num_processes = 0
    /\ pc = "pool"
    /\ Cardinality(running) = cpu_count
    /\ taken < Len(args_list)

\* C24: when a call of process_single_volume has returned, the paths in the
\* output_meshes of its result are exactly the mesh files written during the
\* call.
C24_OutputMeshesAreFilesWritten ==
    (pc = "idle" /\ results # <<>>) =>
        LET r == results[Len(results)]
        IN written = {r.output_meshes[k] : k \in 1..Len(r.output_meshes)}

\* C25: the result of the parallel mode has success = TRUE and total_blocks =
\* the number of blocks whatever the tasks did; when every task failed its
\* output_meshes is empty and watertight_blocks is 0.
C25_ParallelSuccessIndependent ==
    PoolMapReturned =>
        /\ results[1].success
        /\ DictGet(results[1].mesh_quality, "total_blocks") = Len(blocks)
        /\ Succeeding = {} =>
            /\ results[1].output_meshes = <<>>
            /\ DictGet(results[1].mesh_quality, "watertight_blocks") = 0

\* The parallel run of a volume of several blocks all of whose tasks failed.
C25_Witness ==
    /\ PoolMapReturned
    /\ Len(blocks) >= 2
    /\ Succeeding = {}
    /\ results # <<>>

\* C26: in every successful result
\* 0 <= watertight_blocks <= len(output_meshes) <= total_blocks.
C26_QualityOrdering ==
    \A r \in 1..Len(results) :
        results[r].success =>
            LET wt == DictGet(results[r].mesh_quality, "watertight_blocks")
                tb == DictGet(results[r].mesh_quality, "total_blocks")
            IN /\ 0 <= wt
               /\ wt <= Len(results[r].output_meshes)
               /\ Len(results[r].output_meshes) <= tb

\* A successful result where the three numbers differ.
C26_Witness ==
    \E r \in 1..Len(results) :
        /\ results[r].success
        /\ 0 < DictGet(results[r].mesh_quality, "watertight_blocks")
        /\ DictGet(results[r].mesh_quality, "watertight_blocks") <
               Len(results[r].output_meshes)
        /\ Len(results[r].output_meshes) <
               DictGet(results[r].mesh_quality, "total_blocks")

\* C27: in a directory run the output directories of two different inputs
\* differ and no mesh path is written by two inputs.
C27_DistinctOutputDirs ==
    main_args.input = "dir" =>
        \A i, j \in 1..Len(effects) :
            i # j =>
                /\ Join(OutputDir, Stem(tiff_files[i].name)) #
                       Join(OutputDir, Stem(tiff_files[j].name))
                /\ (DOMAIN effects[i].wrote) \cap (DOMAIN effects[j].wrote) = {}

\* C28: add_caps caps with the cap_size, axis and value it was passed, 0
\* included, and with the configured one for an omitted argument: the result
\* is the input between two slabs of that size and value along that axis.
C28_ExplicitArgumentsUsed ==
    call.op = "add_caps" =>
        LET cs == IF call.a1 = None THEN config.cap_size ELSE call.a1
            val == IF call.a2 = None THEN config.cap_value ELSE call.a2
            ax == AxisIndex(IF call.a3 = NoneAxis THEN config.cap_axis ELSE call.a3) + 1
        IN /\ ret.shape = [k \in 1..3 |-> data.shape[k] + (IF k = ax THEN 2 * cs ELSE 0)]
           /\ Strip(ret, Along(ax, cs), Along(ax, cs)) = data
           /\ \A p \in Idx(ret.shape) :
                (p[ax] < cs \/ p[ax] >= data.shape[ax] + cs) => ret.v[p] = val

\* C29: under fair scheduling a call of process_single_volume that has
\* entered the pool or the loop returns a result, and when pool.map has
\* returned every task of args_list has yielded its one result.
C29_EventuallyReturns ==
    /\ (pc = "pool") ~> (pc = "idle" /\ results # <<>>)
    /\ (pc = "loop") ~> (pc = "idle" /\ Len(results) = Len(modes))
    /\ [](PoolMapReturned =>
            /\ DOMAIN slots = 1..Len(args_list)
            /\ \A k \in DOMAIN slots : slots[k].block_idx = k - 1)

\* Both modes have returned on a volume of several blocks.
C29_Witness ==
    /\ pc = "idle"
    /\ Len(results) = 2
    /\ Len(blocks) >= 2
    /\ taken = Len(blocks)

\* C30: when no extraction raises, process_tiff_file returns one result per
\* block of the decomposition, block i at position i, and with
\* use_parallel = FALSE the same results as with use_parallel = TRUE.
C30_TabModesAgree ==
    (tab.state \notin {"idle", "message"} /\ Failing = {}) =>
        /\ tab.state = "returned"
        /\ Len(tab.results) = Len(blockify(config, data, None, None, NoneAxis))
        /\ \A k \in 1..Len(tab.results) : tab.results[k].block_id = k - 1
        /\ tab.results =
               process_tiff_file(config, TRUE, data, MeshGeneratorThreshold, WorkingDir,
                                 TRUE).results

====
